---- MODULE Spec2Model ----
(***************************************************************************)
(* Model of pkg/whip/server.go: the WHIP server's session lifecycle        *)
(* (createStream and the two goroutines it spawns), the handlers map, the  *)
(* root context cancelled by Stop, and the DELETE / PATCH HTTP handlers.   *)
(*                                                                         *)
(* Every createStream call draws a fresh resource id from utils.NewGuid;   *)
(* the model names the n-th call and its resource id by n in Sessions.     *)
(* The handlers map is keyed by resource id and each value is the handler  *)
(* created by the same call, so the map is modelled by its set of keys.    *)
(* handlersLock is modelled by its holder: Lock is one step of a task, the  *)
(* map access and the Unlock that follows it are the next.                 *)
(***************************************************************************)
EXTENDS Integers, Sequences, FiniteSets, Bags, TLC

\* Number of createStream calls of a run.
MaxSessions == 1

Sessions == 1..MaxSessions

\* err values.  NoErr is Go's nil error.
NoErr == "nil"
PublishErrors == {"unauthorized"}
InitErrors == {"failed", "deadline"}
StartErrors == {"failed", "deadline"}
WaitErrors == {"failed"}

VARIABLES
    ctxCancelled,   \* s.ctx: TRUE once s.cancel() ran
    handlers,       \* s.handlers: the set of resource ids that are keys of the map
    pc,             \* position of the createStream call of each session
    ret,            \* error returned by createStream ("none" while it has not returned)
    readyNil,       \* onPublish returned a nil ready callback
    endedNil,       \* onPublish returned a nil ended callback
    initErr,        \* err of h.Init ("none" until it returns)
    tpc,            \* position of the goroutine of lines 357-407
    startErr,       \* err of h.Start, the goroutine's err variable
    wpc,            \* position of the goroutine of lines 389-406
    waitErr,        \* err of h.WaitForSessionEnd
    calls,          \* per session: the bag of calls made on the handler, the
                    \* callbacks and the map
    http,           \* the last HTTP exchange served by the DELETE / PATCH routes
    lock,           \* s.handlersLock: the task that holds it, or NoHolder
    admin           \* the current (or last) call of CloseHandler, AssociateRelay,
                    \* DissociateRelay or IsIdle

sessionVars == <<ctxCancelled, handlers, pc, ret, readyNil, endedNil, initErr,
                 tpc, startErr, wpc, waitErr, calls, lock, admin>>
vars == <<ctxCancelled, handlers, pc, ret, readyNil, endedNil, initErr,
          tpc, startErr, wpc, waitErr, calls, http, lock, admin>>

\* The tasks that take handlersLock: the two goroutines of a session and the
\* caller of an administrative operation.
NoHolder == <<"free", 0>>
StartTask(s) == <<"start", s>>
WaitTask(s) == <<"wait", s>>
AdminTask == <<"admin", 0>>

\* An element of calls: op is the operation called; mime and err are the
\* arguments of a callback ("-" where the operation has none).
Call(op) == [op |-> op, mime |-> "-", err |-> "-"]
Callback(op, mime, e) == [op |-> op, mime |-> mime, err |-> e]

\* The bag b with one more call c.
Made(b, c) == b (+) SetToBag({c})

\* How many times op was called, whatever its arguments.
RECURSIVE SumCopies(_, _)
SumCopies(b, S) ==
    IF S = {} THEN 0
    ELSE LET c == CHOOSE x \in S : TRUE
         IN  CopiesIn(c, b) + SumCopies(b, S \ {c})
CountOp(b, op) == SumCopies(b, {c \in BagToSet(b) : c.op = op})

----------------------------------------------------------------------------
\* createStream without the return of line 348: h.Init is called although
\* onPublish failed.
CreateStreamNoReturn(s, rNil, eNil, e) ==
    /\ pc[s] = "idle"
    /\ \A t \in Sessions : t < s => pc[t] # "idle"
    /\ readyNil' = [readyNil EXCEPT ![s] = rNil]
    /\ endedNil' = [endedNil EXCEPT ![s] = eNil]
    /\ pc' = [pc EXCEPT ![s] = "init"]
    /\ ret' = [ret EXCEPT ![s] = IF e # NoErr THEN e ELSE @]
    /\ calls' = [calls EXCEPT ![s] = Made(Made(@, Call("onPublish")), Call("Init"))]
    /\ UNCHANGED <<ctxCancelled, handlers, initErr, tpc, startErr, wpc, waitErr,
                   http, lock, admin>>

\* createStream, lines 338-355: NewGuid, NewWHIPHandler, onPublish and, when
\* onPublish succeeds, the call of h.Init.
CreateStream(s, rNil, eNil, e) ==
    /\ pc[s] = "idle"
    /\ \A t \in Sessions : t < s => pc[t] # "idle"
    /\ readyNil' = [readyNil EXCEPT ![s] = rNil]
    /\ endedNil' = [endedNil EXCEPT ![s] = eNil]
    /\ IF e # NoErr
       THEN /\ pc' = [pc EXCEPT ![s] = "returned"]
            /\ ret' = [ret EXCEPT ![s] = e]
            /\ calls' = [calls EXCEPT ![s] = Made(@, Call("onPublish"))]
       ELSE /\ pc' = [pc EXCEPT ![s] = "init"]
            /\ ret' = ret
            /\ calls' = [calls EXCEPT ![s] = Made(Made(@, Call("onPublish")), Call("Init"))]
    /\ UNCHANGED <<ctxCancelled, handlers, initErr, tpc, startErr, wpc, waitErr,
                   http, lock, admin>>

\* Lines 351-357 without the return of line 354: the goroutine is started
\* although h.Init failed.
InitFailedNoReturn(s, e) ==
    /\ pc[s] = "init"
    /\ e \in InitErrors
    /\ initErr' = [initErr EXCEPT ![s] = e]
    /\ pc' = [pc EXCEPT ![s] = "returned"]
    /\ ret' = [ret EXCEPT ![s] = e]
    /\ tpc' = [tpc EXCEPT ![s] = "register"]
    /\ UNCHANGED <<ctxCancelled, handlers, readyNil, endedNil, startErr, wpc,
                   waitErr, calls, http, lock, admin>>

\* Lines 351-355 without the ready call of line 353.
InitFailedNoReady(s, e) ==
    /\ pc[s] = "init"
    /\ e \in InitErrors
    /\ initErr' = [initErr EXCEPT ![s] = e]
    /\ pc' = [pc EXCEPT ![s] = "returned"]
    /\ ret' = [ret EXCEPT ![s] = e]
    /\ UNCHANGED <<ctxCancelled, handlers, readyNil, endedNil, tpc, startErr,
                   wpc, waitErr, calls, http, lock, admin>>

\* createStream, lines 351-355: h.Init returned an error.  ready is called
\* without a nil check: a nil ready panics and createStream returns nothing.
InitFailed(s, e) ==
    /\ pc[s] = "init"
    /\ e \in InitErrors
    /\ initErr' = [initErr EXCEPT ![s] = e]
    /\ IF readyNil[s]
       THEN /\ pc' = [pc EXCEPT ![s] = "panicked"]
            /\ UNCHANGED <<ret, calls>>
       ELSE /\ pc' = [pc EXCEPT ![s] = "returned"]
            /\ ret' = [ret EXCEPT ![s] = e]
            /\ calls' = [calls EXCEPT ![s] = Made(@, Callback("ready", "nil", e))]
    /\ UNCHANGED <<ctxCancelled, handlers, readyNil, endedNil, tpc, startErr,
                   wpc, waitErr, http, lock, admin>>

\* createStream, lines 351, 357, 409: h.Init succeeded; the goroutine is
\* started and createStream returns the resource id and the answer.
InitSucceeded(s) ==
    /\ pc[s] = "init"
    /\ initErr' = [initErr EXCEPT ![s] = NoErr]
    /\ pc' = [pc EXCEPT ![s] = "returned"]
    /\ ret' = [ret EXCEPT ![s] = NoErr]
    /\ tpc' = [tpc EXCEPT ![s] = "register"]
    /\ UNCHANGED <<ctxCancelled, handlers, readyNil, endedNil, startErr, wpc,
                   waitErr, calls, http, lock, admin>>

\* The goroutine going on to h.Start without the insert of line 379.
UnlockWithoutInsert(s) ==
    /\ tpc[s] = "register"
    /\ lock = StartTask(s)
    /\ lock' = NoHolder
    /\ tpc' = [tpc EXCEPT ![s] = "callStart"]
    /\ UNCHANGED <<ctxCancelled, handlers, pc, ret, readyNil, endedNil, initErr,
                   startErr, wpc, waitErr, calls, http, admin>>

\* Goroutine, lines 379-380: s.handlers[resourceId] = h and the Unlock.
Register(s) ==
    /\ tpc[s] = "register"
    /\ lock = StartTask(s)
    /\ lock' = NoHolder
    /\ handlers' = handlers \cup {s}
    /\ tpc' = [tpc EXCEPT ![s] = "callStart"]
    /\ calls' = [calls EXCEPT ![s] = Made(@, Call("insert"))]
    /\ UNCHANGED <<ctxCancelled, pc, ret, readyNil, endedNil, initErr, startErr,
                   wpc, waitErr, http, admin>>

\* Goroutine, line 382: h.Start(ctx) is called.
StartCall(s) ==
    /\ tpc[s] = "callStart"
    /\ tpc' = [tpc EXCEPT ![s] = "starting"]
    /\ calls' = [calls EXCEPT ![s] = Made(@, Call("Start"))]
    /\ UNCHANGED <<ctxCancelled, handlers, pc, ret, readyNil, endedNil, initErr,
                   startErr, wpc, waitErr, http, lock, admin>>

\* Where the goroutine goes when its body returns: the deferred function of
\* lines 364-375 exists only when ready is not nil (line 363).
AfterStart(s) == IF readyNil[s] THEN "done" ELSE "ready"

\* Lines 382-385 without the return of line 384: the second goroutine is
\* started although h.Start failed.
StartFailedNoReturn(s, e) ==
    /\ tpc[s] = "starting"
    /\ e \in StartErrors
    /\ startErr' = [startErr EXCEPT ![s] = e]
    /\ tpc' = [tpc EXCEPT ![s] = AfterStart(s)]
    /\ wpc' = [wpc EXCEPT ![s] = "call"]
    /\ UNCHANGED <<ctxCancelled, handlers, pc, ret, readyNil, endedNil, initErr,
                   waitErr, calls, http, lock, admin>>

\* Goroutine, lines 382-385: h.Start returned an error; the body returns.
StartFailed(s, e) ==
    /\ tpc[s] = "starting"
    /\ e \in StartErrors
    /\ startErr' = [startErr EXCEPT ![s] = e]
    /\ tpc' = [tpc EXCEPT ![s] = AfterStart(s)]
    /\ UNCHANGED <<ctxCancelled, handlers, pc, ret, readyNil, endedNil, initErr,
                   wpc, waitErr, calls, http, lock, admin>>

\* Goroutine, lines 382-407: h.Start succeeded; the second goroutine is
\* started and the body returns.
StartSucceeded(s) ==
    /\ tpc[s] = "starting"
    /\ startErr' = [startErr EXCEPT ![s] = NoErr]
    /\ tpc' = [tpc EXCEPT ![s] = AfterStart(s)]
    /\ wpc' = [wpc EXCEPT ![s] = "call"]
    /\ UNCHANGED <<ctxCancelled, handlers, pc, ret, readyNil, endedNil, initErr,
                   waitErr, calls, http, lock, admin>>

\* Deferred function, lines 365-368: ready(mimeTypes, err), and
\* h.SetMediaStatsGatherer when ready returned a gatherer.  h.Start is taken
\* to return a nil map with an error.
ReadyDeferred(s, stats) ==
    /\ tpc[s] = "ready"
    /\ calls' = [calls EXCEPT ![s] =
                  LET r == Made(@, Callback("ready",
                                    IF startErr[s] = NoErr THEN "mimeTypes" ELSE "nil",
                                    startErr[s]))
                  IN  IF stats THEN Made(r, Call("SetMediaStatsGatherer")) ELSE r]
    /\ tpc' = [tpc EXCEPT ![s] = IF startErr[s] # NoErr THEN "delete" ELSE "done"]
    /\ UNCHANGED <<ctxCancelled, handlers, pc, ret, readyNil, endedNil, initErr,
                   startErr, wpc, waitErr, http, lock, admin>>

\* Deferred function, lines 370-374: when h.Start failed,
\* delete(s.handlers, resourceId) and the Unlock.
DeleteDeferred(s) ==
    /\ tpc[s] = "delete"
    /\ lock = StartTask(s)
    /\ lock' = NoHolder
    /\ handlers' = handlers \ {s}
    /\ tpc' = [tpc EXCEPT ![s] = "done"]
    /\ calls' = [calls EXCEPT ![s] = Made(@, Call("delete"))]
    /\ UNCHANGED <<ctxCancelled, pc, ret, readyNil, endedNil, initErr, startErr,
                   wpc, waitErr, http, admin>>

\* Second goroutine, line 405: h.WaitForSessionEnd(s.ctx) is called.
WaitCall(s) ==
    /\ wpc[s] = "call"
    /\ wpc' = [wpc EXCEPT ![s] = "waiting"]
    /\ calls' = [calls EXCEPT ![s] = Made(@, Call("WaitForSessionEnd"))]
    /\ UNCHANGED <<ctxCancelled, handlers, pc, ret, readyNil, endedNil, initErr,
                   tpc, startErr, waitErr, http, lock, admin>>

\* Second goroutine, line 405: h.WaitForSessionEnd returned e (nil or not).
WaitReturned(s, e) ==
    /\ wpc[s] = "waiting"
    /\ e \in WaitErrors \cup {NoErr}
    /\ waitErr' = [waitErr EXCEPT ![s] = e]
    /\ wpc' = [wpc EXCEPT ![s] = "delete"]
    /\ UNCHANGED <<ctxCancelled, handlers, pc, ret, readyNil, endedNil, initErr,
                   tpc, startErr, calls, http, lock, admin>>

\* The deferred function calling ended without the delete of line 393.
EndedWithoutDelete(s) ==
    /\ wpc[s] = "delete"
    /\ lock = WaitTask(s)
    /\ lock' = NoHolder
    /\ wpc' = [wpc EXCEPT ![s] = "ended"]
    /\ UNCHANGED <<ctxCancelled, handlers, pc, ret, readyNil, endedNil, initErr,
                   tpc, startErr, waitErr, calls, http, admin>>

\* Second goroutine's deferred function, lines 393-394: the delete and the
\* Unlock.
DeleteEnded(s) ==
    /\ wpc[s] = "delete"
    /\ lock = WaitTask(s)
    /\ lock' = NoHolder
    /\ handlers' = handlers \ {s}
    /\ wpc' = [wpc EXCEPT ![s] = "ended"]
    /\ calls' = [calls EXCEPT ![s] = Made(@, Call("delete"))]
    /\ UNCHANGED <<ctxCancelled, pc, ret, readyNil, endedNil, initErr, tpc,
                   startErr, waitErr, http, admin>>

\* Second goroutine's deferred function, lines 396-402: the warning and
\* ended(err) when ended is not nil.
EndedDeferred(s) ==
    /\ wpc[s] = "ended"
    /\ wpc' = [wpc EXCEPT ![s] = "done"]
    /\ calls' = [calls EXCEPT ![s] =
                  IF endedNil[s] THEN @
                  ELSE Made(@, Callback("ended", "-", waitErr[s]))]
    /\ UNCHANGED <<ctxCancelled, handlers, pc, ret, readyNil, endedNil, initErr,
                   tpc, startErr, waitErr, http, lock, admin>>

\* Stop, lines 258-260: s.cancel().
Stop ==
    /\ ~ctxCancelled
    /\ ctxCancelled' = TRUE
    /\ UNCHANGED <<handlers, pc, ret, readyNil, endedNil, initErr, tpc, startErr,
                   wpc, waitErr, calls, http, lock, admin>>

\* Idleness judged by the sessions that are in h.WaitForSessionEnd instead
\* of by the map.
IdleIfNoneWaiting == \A s \in Sessions : wpc[s] # "waiting"

\* IsIdle, lines 287-292.
IsIdle == Cardinality(handlers) = 0

----------------------------------------------------------------------------
\* The administrative operations, called by the owner of the server.  One
\* caller is modelled; admin holds its call: the operation, the resource
\* id, the position, the result of the lookup (found), whether the lookup
\* fell between createStream's return and the registration (early),
\* whether a handler operation was called, and the value returned.

ErrNotFound == "ErrIngressNotFound"
RelayErrors == {"relayFailed"}
LookupOps == {"CloseHandler", "AssociateRelay", "DissociateRelay"}

AdminCall(op, rid) ==
    [op |-> op, rid |-> rid, pc |-> "lookup", found |-> FALSE, early |-> FALSE,
     called |-> FALSE, ret |-> "-"]

NoAdminCall == [AdminCall("none", 1) EXCEPT !.pc = "done"]

\* A call of CloseHandler (248), AssociateRelay (262) or DissociateRelay
\* (278) begins, or a call of IsIdle (287).
BeginCall(op, rid) ==
    /\ admin.pc = "done"
    /\ op \in LookupOps \cup {"IsIdle"}
    /\ op = "IsIdle" => rid = 1
    /\ admin' = AdminCall(op, rid)
    /\ UNCHANGED <<ctxCancelled, handlers, pc, ret, readyNil, endedNil, initErr,
                   tpc, startErr, wpc, waitErr, calls, http, lock>>

\* The task t is at a s.handlersLock.Lock() statement.
AtLock(t) ==
    \/ \E s \in Sessions : t = StartTask(s) /\ tpc[s] \in {"register", "delete"}
    \/ \E s \in Sessions : t = WaitTask(s) /\ wpc[s] = "delete"
    \/ t = AdminTask /\ admin.pc = "lookup"

\* s.handlersLock.Lock(), lines 249, 263, 279, 288, 371, 378, 392: the task
\* waits until the mutex is free and takes it.
Lock(t) ==
    /\ AtLock(t)
    /\ lock = NoHolder
    /\ lock' = t
    /\ UNCHANGED <<ctxCancelled, handlers, pc, ret, readyNil, endedNil, initErr,
                   tpc, startErr, wpc, waitErr, calls, http, admin>>

\* A lookup that finds every session whose createStream has returned its
\* resource id, registered or not.
FoundIfReturned(rid) == pc[rid] = "returned" /\ ret[rid] = NoErr

\* Lines 250, 264, 280: h, ok := s.handlers[resourceId].
Found(rid) == rid \in handlers

\* Lines 250-251, 264-265, 280-281 keeping the mutex until the operation
\* returns, as a deferred Unlock would.
LookupDeferUnlock ==
    /\ admin.pc = "lookup" /\ admin.op \in LookupOps
    /\ lock = AdminTask
    /\ LET ok == Found(admin.rid)
       IN  admin' = [admin EXCEPT
                       !.found = ok,
                       !.early = tpc[admin.rid] = "register",
                       !.called = ok,
                       !.pc = IF ok THEN "calling" ELSE "done",
                       !.ret = IF ~ok /\ admin.op = "AssociateRelay"
                               THEN ErrNotFound ELSE "-"]
    /\ UNCHANGED <<ctxCancelled, handlers, pc, ret, readyNil, endedNil, initErr,
                   tpc, startErr, wpc, waitErr, calls, http, lock>>

\* Lines 250-255, 264-273, 280-284: h, ok := s.handlers[resourceId], the
\* Unlock, and then either the call of the handler's operation (ok, and h
\* is never nil in the map) or the return: ErrIngressNotFound from
\* AssociateRelay, nothing from the other two.
Lookup ==
    /\ admin.pc = "lookup" /\ admin.op \in LookupOps
    /\ lock = AdminTask
    /\ lock' = NoHolder
    /\ LET ok == Found(admin.rid)
       IN  admin' = [admin EXCEPT
                       !.found = ok,
                       !.early = tpc[admin.rid] = "register",
                       !.called = ok,
                       !.pc = IF ok THEN "calling" ELSE "done",
                       !.ret = IF ~ok /\ admin.op = "AssociateRelay"
                               THEN ErrNotFound ELSE "-"]
    /\ UNCHANGED <<ctxCancelled, handlers, pc, ret, readyNil, endedNil, initErr,
                   tpc, startErr, wpc, waitErr, calls, http>>

\* Lines 254, 267-275, 283: h.Close, h.AssociateRelay or h.DissociateRelay
\* returned; AssociateRelay returns the handler's error, or nil.
HandlerReturned(e) ==
    /\ admin.pc = "calling"
    /\ e \in RelayErrors \cup {NoErr}
    /\ admin.op # "AssociateRelay" => e = NoErr
    /\ admin' = [admin EXCEPT !.pc = "done",
                              !.ret = IF admin.op = "AssociateRelay" THEN e ELSE "-"]
    /\ UNCHANGED <<ctxCancelled, handlers, pc, ret, readyNil, endedNil, initErr,
                   tpc, startErr, wpc, waitErr, calls, http, lock>>

\* IsIdle, line 291: len(s.handlers) == 0 is evaluated with the mutex held.
IsIdleRead ==
    /\ admin.pc = "lookup" /\ admin.op = "IsIdle"
    /\ lock = AdminTask
    /\ admin' = [admin EXCEPT !.pc = "return",
                              !.ret = IF IsIdle THEN "true" ELSE "false"]
    /\ UNCHANGED <<ctxCancelled, handlers, pc, ret, readyNil, endedNil, initErr,
                   tpc, startErr, wpc, waitErr, calls, http, lock>>

\* IsIdle, lines 289-291: the deferred Unlock and the return.
IsIdleReturn ==
    /\ admin.pc = "return"
    /\ lock = AdminTask
    /\ lock' = NoHolder
    /\ admin' = [admin EXCEPT !.pc = "done"]
    /\ UNCHANGED <<ctxCancelled, handlers, pc, ret, readyNil, endedNil, initErr,
                   tpc, startErr, wpc, waitErr, calls, http>>

----------------------------------------------------------------------------
\* The HTTP routes of Start that go through the RPC client.

\* Status codes written by the handlers.
StatusOK == 200
StatusNoContent == 204
StatusInternalServerError == 500

\* error values seen by the routes: psrpc tells whether errors.As finds a
\* psrpc.Error in it, http is that error's ToHttp().
NilError == [name |-> "nil", psrpc |-> FALSE, http |-> 0]
ErrNoResponse == [name |-> "psrpc.ErrNoResponse", psrpc |-> TRUE, http |-> 503]
ErrIngressNotFound == [name |-> "ErrIngressNotFound", psrpc |-> TRUE, http |-> 404]
ErrInvalidWHIPRestartRequest ==
    [name |-> "ErrInvalidWHIPRestartRequest", psrpc |-> TRUE, http |-> 400]
ErrUpstream == [name |-> "psrpc.Internal", psrpc |-> TRUE, http |-> 500]
ErrPlain == [name |-> "plain", psrpc |-> FALSE, http |-> 0]

\* What an RPC call can return as its error.
RpcResults == {NilError, ErrNoResponse, ErrUpstream, ErrPlain}

\* The requests of the model.  A request names any resource id: one that
\* createStream returned, or UnknownResource, which it never returned.
UnknownResource == 0
ResourceIDs == Sessions \cup {UnknownResource}
StreamKeys == {"abc", "def"}
IfMatchValues == {"*", "", "W/*"}
Credentials == {"", "x"}
Fragments == {"", "a"}

\* []byte(f) of a fragment.
FragmentBytes(f) == IF f = "a" THEN <<97>> ELSE <<>>

\* 32-bit words as functions from bit positions (0 the least significant)
\* to bits, for hash/crc32.
Bits == 0..31
RECURSIVE Pow2(_)
Pow2(n) == IF n = 0 THEN 1 ELSE 2 * Pow2(n - 1)
WordOfNibbles(n) == [i \in Bits |-> (n[8 - (i \div 4)] \div Pow2(i % 4)) % 2]
WordOfByte(b) == [i \in Bits |-> IF i < 8 THEN (b \div Pow2(i)) % 2 ELSE 0]
XorWord(a, b) == [i \in Bits |-> (a[i] + b[i]) % 2]
ShiftRight(w) == [i \in Bits |-> IF i = 31 THEN 0 ELSE w[i + 1]]
AllOnes == [i \in Bits |-> 1]
\* crc32.IEEE, the reversed polynomial 0xedb88320.
IEEEPoly == WordOfNibbles(<<14, 13, 11, 8, 8, 3, 2, 0>>)

RECURSIVE CrcBits(_, _)
CrcBits(w, n) ==
    IF n = 0 THEN w
    ELSE CrcBits(IF w[0] = 1 THEN XorWord(ShiftRight(w), IEEEPoly) ELSE ShiftRight(w),
                 n - 1)

RECURSIVE CrcUpdate(_, _)
CrcUpdate(w, bytes) ==
    IF bytes = <<>> THEN w
    ELSE CrcUpdate(CrcBits(XorWord(w, WordOfByte(Head(bytes))), 8), Tail(bytes))

\* crc32.ChecksumIEEE.
ChecksumIEEE(bytes) == XorWord(CrcUpdate(AllOnes, bytes), AllOnes)

HexDigits == <<"0", "1", "2", "3", "4", "5", "6", "7",
               "8", "9", "a", "b", "c", "d", "e", "f">>
Nibble(w, k) == w[4 * k] + 2 * w[4 * k + 1] + 4 * w[4 * k + 2] + 8 * w[4 * k + 3]
\* fmt.Sprintf("%08x", w).
Sprintf08x(w) ==
    HexDigits[Nibble(w, 7) + 1] \o HexDigits[Nibble(w, 6) + 1] \o
    HexDigits[Nibble(w, 5) + 1] \o HexDigits[Nibble(w, 4) + 1] \o
    HexDigits[Nibble(w, 3) + 1] \o HexDigits[Nibble(w, 2) + 1] \o
    HexDigits[Nibble(w, 1) + 1] \o HexDigits[Nibble(w, 0) + 1]

\* An exchange: the request, the response writer (status 0 while WriteHeader
\* was not called), the RPC calls made for it and the errors handed to
\* handleError.
Exchange(method, rid, key, ifMatch, bodyOk, parseOk, ufrag, pwd) ==
    [method |-> method, resourceID |-> rid, streamKey |-> key, ifMatch |-> ifMatch,
     bodyOk |-> bodyOk, parseOk |-> parseOk, ufrag |-> ufrag, pwd |-> pwd,
     status |-> 0, body |-> "", allowOrigin |-> "", contentType |-> "", etag |-> "",
     rpc |-> <<>>, handled |-> <<>>]

NoExchange == Exchange("none", UnknownResource, "", "", TRUE, TRUE, "", "")

\* handleError, lines 294-306.
handleError(err, w) ==
    LET h == [w EXCEPT !.handled = Append(@, err.name)]
    IN  IF err.psrpc
        THEN [h EXCEPT !.status = err.http, !.body = err.name]
        ELSE IF err = NilError
        THEN h
        ELSE [h EXCEPT !.status = StatusInternalServerError]

\* Line 149 without the remapping of line 150.
KeepNoResponse(err) == err

\* Lines 149-151: psrpc.ErrNoResponse becomes errors.ErrIngressNotFound.
NotFoundIfNoResponse(err) == IF err = ErrNoResponse THEN ErrIngressNotFound ELSE err

\* Line 163 testing only that the header is present.
IsRestartIfPresent(ifMatch) == ifMatch # ""

\* Line 163: the request is an ICE restart when If-Match is exactly "*".
IsRestart(ifMatch) == ifMatch = "*"

\* Line 187 rejecting only a request that lacks both credentials.
HasEitherCredential(ufrag, pwd) == ~(ufrag = "" /\ pwd = "")

\* Line 187: both the username fragment and the password were extracted.
HasCredentials(ufrag, pwd) == ~(ufrag = "" \/ pwd = "")

\* The DELETE route, lines 129-152.
DeleteHandler(rid, key, rpcErr) ==
    /\ rpcErr \in RpcResults
    /\ ctxCancelled => rpcErr # NilError
    /\ LET w0 == [Exchange("DELETE", rid, key, "", TRUE, TRUE, "", "")
                     EXCEPT !.allowOrigin = "*"]
           w1 == [w0 EXCEPT !.rpc = Append(@, [name |-> "DeleteWHIPResource",
                        resourceID |-> rid, streamKey |-> key, ufrag |-> "",
                        pwd |-> "", err |-> rpcErr.name])]
       IN  http' = handleError(NotFoundIfNoResponse(rpcErr), w1)
    /\ UNCHANGED sessionVars

\* The PATCH route, lines 155-218.  bodyOk: io.ReadAll succeeded; parseOk,
\* ufrag, pwd: the result of ScherbanExtractDetails; rpcErr, frag: the result
\* of ICERestartWHIPResource.  A body that cannot be read has nothing to
\* parse, and a failed parse yields no credentials.
PatchHandler(rid, key, ifMatch, bodyOk, parseOk, ufrag, pwd, rpcErr, frag) ==
    /\ ~bodyOk => ~parseOk
    /\ ~parseOk => ufrag = "" /\ pwd = ""
    /\ rpcErr \in RpcResults
    /\ ctxCancelled => rpcErr # NilError
    /\ LET w0 == [Exchange("PATCH", rid, key, ifMatch, bodyOk, parseOk, ufrag, pwd)
                     EXCEPT !.allowOrigin = "*"]
           w1 == [w0 EXCEPT !.rpc = Append(@, [name |-> "ICERestartWHIPResource",
                        resourceID |-> rid, streamKey |-> key, ufrag |-> ufrag,
                        pwd |-> pwd, err |-> rpcErr.name])]
       IN  http' =
             IF ~IsRestart(ifMatch)
             THEN [w0 EXCEPT !.status = StatusNoContent]
             ELSE IF ~bodyOk
             THEN handleError(ErrInvalidWHIPRestartRequest, w0)
             ELSE IF ~parseOk
             THEN handleError(ErrInvalidWHIPRestartRequest, w0)
             ELSE IF ~HasCredentials(ufrag, pwd)
             THEN handleError(ErrInvalidWHIPRestartRequest, w0)
             ELSE IF rpcErr = ErrNoResponse
             THEN handleError(ErrIngressNotFound, w1)
             ELSE IF rpcErr # NilError
             THEN handleError(rpcErr, w1)
             ELSE [w1 EXCEPT !.contentType = "application/trickle-ice-sdpfrag",
                             !.etag = Sprintf08x(ChecksumIEEE(FragmentBytes(frag))),
                             !.status = StatusOK,
                             !.body = frag]
    /\ UNCHANGED sessionVars

----------------------------------------------------------------------------
Init ==
    /\ ctxCancelled = FALSE
    /\ handlers = {}
    /\ pc = [s \in Sessions |-> "idle"]
    /\ ret = [s \in Sessions |-> "none"]
    /\ readyNil = [s \in Sessions |-> FALSE]
    /\ endedNil = [s \in Sessions |-> FALSE]
    /\ initErr = [s \in Sessions |-> "none"]
    /\ tpc = [s \in Sessions |-> "none"]
    /\ startErr = [s \in Sessions |-> "none"]
    /\ wpc = [s \in Sessions |-> "none"]
    /\ waitErr = [s \in Sessions |-> "none"]
    /\ calls = [s \in Sessions |-> EmptyBag]
    /\ http = NoExchange
    /\ lock = NoHolder
    /\ admin = NoAdminCall

\* The steps of the request task, of the first goroutine and of the second.
RequestStep(s) ==
    \/ \E e \in InitErrors : InitFailed(s, e)
    \/ InitSucceeded(s)

StartTaskStep(s) ==
    \/ Lock(StartTask(s))
    \/ Register(s)
    \/ StartCall(s)
    \/ \E e \in StartErrors : StartFailed(s, e)
    \/ StartSucceeded(s)
    \/ \E stats \in BOOLEAN : ReadyDeferred(s, stats)
    \/ DeleteDeferred(s)

WaitTaskStep(s) ==
    \/ WaitCall(s)
    \/ Lock(WaitTask(s))
    \/ DeleteEnded(s)
    \/ EndedDeferred(s)

Next ==
    \/ \E s \in Sessions, rNil \in BOOLEAN, eNil \in BOOLEAN,
          e \in PublishErrors \cup {NoErr} : CreateStream(s, rNil, eNil, e)
    \/ \E s \in Sessions : RequestStep(s)
    \/ \E s \in Sessions : StartTaskStep(s)
    \/ \E s \in Sessions : WaitTaskStep(s)
    \/ \E s \in Sessions, e \in WaitErrors \cup {NoErr} : WaitReturned(s, e)
    \/ Stop

Spec == Init /\ [][Next]_vars

\* The sessions together with the administrative operations.
AdminStep ==
    \/ \E op \in LookupOps \cup {"IsIdle"}, rid \in Sessions : BeginCall(op, rid)
    \/ Lock(AdminTask)
    \/ Lookup
    \/ \E e \in RelayErrors \cup {NoErr} : HandlerReturned(e)
    \/ IsIdleRead
    \/ IsIdleReturn

ServerNext == Next \/ AdminStep

ServerSpec == Init /\ [][ServerNext]_vars

\* The DELETE and PATCH routes alone.
HttpNext ==
    \/ \E rid \in ResourceIDs, key \in StreamKeys, rpcErr \in RpcResults :
          DeleteHandler(rid, key, rpcErr)
    \/ \E rid \in ResourceIDs, key \in StreamKeys, ifMatch \in IfMatchValues,
          bodyOk \in BOOLEAN, parseOk \in BOOLEAN,
          ufrag \in Credentials, pwd \in Credentials,
          rpcErr \in RpcResults, frag \in Fragments :
          PatchHandler(rid, key, ifMatch, bodyOk, parseOk, ufrag, pwd, rpcErr, frag)
    \/ Stop

HttpSpec == Init /\ [][HttpNext]_vars

\* The scheduling the code relies on: a runnable goroutine runs; h.Init and
\* h.Start return within their deadlines (lines 339, 358); and
\* h.WaitForSessionEnd returns once the root context is cancelled.
Fairness ==
    \A s \in Sessions :
        /\ WF_vars(RequestStep(s))
        /\ WF_vars(StartTaskStep(s))
        /\ WF_vars(WaitTaskStep(s))
        /\ WF_vars(ctxCancelled /\ \E e \in WaitErrors \cup {NoErr} : WaitReturned(s, e))

FairSpec == Spec /\ Fairness

----------------------------------------------------------------------------
\* Properties.

ReadyCount(s) == CountOp(calls[s], "ready")
EndedCount(s) == CountOp(calls[s], "ended")

\* onPublish was called for s and returned no error.
Published(s) == pc[s] # "idle" /\ ret[s] \notin PublishErrors

\* C1: when onPublish succeeds and returns a ready callback, ready is
\* invoked exactly once on every path: never twice, already once when
\* createStream returns an Init error and when the first goroutine has
\* finished, and eventually once in every run; when onPublish fails ready is
\* never invoked.
C1_ReadyExactlyOnce ==
    /\ [](\A s \in Sessions :
            /\ ReadyCount(s) <= 1
            /\ ret[s] \in PublishErrors => ReadyCount(s) = 0
            /\ (~readyNil[s] /\ ret[s] \in InitErrors) => ReadyCount(s) = 1
            /\ (~readyNil[s] /\ tpc[s] = "done") => ReadyCount(s) = 1)
    /\ \A s \in Sessions : (Published(s) /\ ~readyNil[s]) ~> (ReadyCount(s) = 1)

\* A session whose Start timed out and whose goroutine is over, its ready
\* callback invoked with that error.
C1_Witness ==
    \E s \in Sessions :
        /\ ~readyNil[s] /\ startErr[s] = "deadline" /\ tpc[s] = "done"
        /\ CopiesIn(Callback("ready", "nil", "deadline"), calls[s]) = 1

\* C2: ended is invoked at most once, only after h.Start succeeded and
\* h.WaitForSessionEnd returned (so never when onPublish, Init or Start
\* failed), and once h.WaitForSessionEnd has returned it is eventually
\* invoked, with the error h.WaitForSessionEnd returned.
C2_EndedIffStarted ==
    /\ [](\A s \in Sessions :
            /\ EndedCount(s) <= 1
            /\ EndedCount(s) = 1 =>
                  /\ ret[s] = NoErr /\ initErr[s] = NoErr /\ startErr[s] = NoErr
                  /\ waitErr[s] # "none"
                  /\ CopiesIn(Callback("ended", "-", waitErr[s]), calls[s]) = 1)
    /\ \A s \in Sessions :
          (waitErr[s] # "none" /\ ~endedNil[s]) ~> (EndedCount(s) = 1)

\* A session ended after a successful start, with an error from
\* h.WaitForSessionEnd, while its ready callback has not run yet.
C2_Witness ==
    \E s \in Sessions :
        /\ startErr[s] = NoErr /\ waitErr[s] \in WaitErrors
        /\ wpc[s] = "done" /\ EndedCount(s) = 1
        /\ tpc[s] = "ready"

\* The state of a session.  A session counts as Starting until the first
\* goroutine is over (its deferred function included), and as Started until
\* the second goroutine has removed it from the map.
SessionState(s) ==
    IF pc[s] = "idle" THEN "None"
    ELSE IF pc[s] = "init" THEN "Negotiating"
    ELSE IF pc[s] = "panicked" \/ ret[s] # NoErr THEN "Failed"
    ELSE IF tpc[s] = "register" THEN "Negotiated"
    ELSE IF tpc[s] = "callStart" THEN "Registered"
    ELSE IF tpc[s] = "starting" THEN "Starting"
    ELSE IF startErr[s] # NoErr
         THEN (IF tpc[s] = "done" THEN "Failed" ELSE "Starting")
    ELSE IF wpc[s] \in {"call", "waiting", "delete"} THEN "Started"
    ELSE "Ended"

\* C3: a resource id is a key of the handlers map if and only if its
\* session is Registered, Starting or Started.
C3_RegisteredIffLive ==
    \A s \in Sessions :
        s \in handlers <=> SessionState(s) \in {"Registered", "Starting", "Started"}

\* C4: once h.Start has failed and the first goroutine is over, the session
\* is not in the handlers map, and ended is not invoked for it.
C4_StartFailureRemoves ==
    \A s \in Sessions :
        (startErr[s] \in StartErrors /\ tpc[s] = "done") =>
            /\ s \notin handlers
            /\ wpc[s] = "none"
            /\ EndedCount(s) = 0

\* C5: once h.Init has failed, createStream has returned that error, ready
\* (when there is one) was invoked once with a nil map and the error, the
\* session is not in the map, no goroutine exists and nothing else was
\* called.
C5_InitFailureReturns ==
    \A s \in Sessions :
        initErr[s] \in InitErrors =>
            /\ pc[s] = "returned"
            /\ ret[s] = initErr[s]
            /\ calls[s] =
                 IF readyNil[s]
                 THEN SetToBag({Call("onPublish"), Call("Init")})
                 ELSE SetToBag({Call("onPublish"), Call("Init"),
                                Callback("ready", "nil", initErr[s])})
            /\ tpc[s] = "none" /\ wpc[s] = "none"
            /\ s \notin handlers

\* C6: when onPublish fails, createStream returns its error in the same
\* step, leaves the map as it is, and nothing is ever called for that
\* session: no Init, Start or WaitForSessionEnd, no callback, no goroutine.
C6_PublishFailureReturns ==
    /\ [](\A s \in Sessions :
            ret[s] \in PublishErrors =>
                /\ pc[s] = "returned"
                /\ calls[s] = SetToBag({Call("onPublish")})
                /\ initErr[s] = "none" /\ tpc[s] = "none" /\ wpc[s] = "none"
                /\ s \notin handlers)
    /\ [][\A s \in Sessions :
            (pc[s] = "idle" /\ ret'[s] \in PublishErrors) =>
                /\ pc'[s] = "returned"
                /\ handlers' = handlers]_vars

\* A createStream call that returned the error of onPublish, which had
\* supplied both callbacks with it.
C6_Witness ==
    \E s \in Sessions :
        /\ ret[s] \in PublishErrors /\ pc[s] = "returned"
        /\ ~readyNil[s] /\ ~endedNil[s]

\* No task of the session has a step left.
Settled(s) ==
    /\ pc[s] \in {"idle", "returned", "panicked"}
    /\ tpc[s] \in {"none", "done"}
    /\ wpc[s] \in {"none", "done"}

\* C7: after Stop, once every task of every session is over, the handlers
\* map is empty and IsIdle returns true.
C7_IdleAfterStop ==
    (ctxCancelled /\ \A s \in Sessions : Settled(s)) => IsIdle

\* C8: a PATCH whose If-Match is not "*" gets 204 and no body, without an
\* RPC call and without handleError.
C8_TrickleNoContent ==
    (http.method = "PATCH" /\ http.ifMatch # "*") =>
        /\ http.status = StatusNoContent
        /\ http.body = ""
        /\ http.rpc = <<>>
        /\ http.handled = <<>>

\* A PATCH with a weak-match header and a well-formed restart body.
C8_Witness ==
    /\ http.method = "PATCH" /\ http.ifMatch = "W/*"
    /\ http.bodyOk /\ http.parseOk /\ http.ufrag # "" /\ http.pwd # ""
    /\ http.status = StatusNoContent

\* C9: a PATCH with If-Match "*" whose body cannot be read or parsed, or
\* lacks the username fragment or the password, is answered by handleError
\* with ErrInvalidWHIPRestartRequest and makes no RPC call.
C9_InvalidRestart ==
    (/\ http.method = "PATCH" /\ http.ifMatch = "*"
     /\ (~http.bodyOk \/ ~http.parseOk \/ http.ufrag = "" \/ http.pwd = "")) =>
        /\ http.handled = <<ErrInvalidWHIPRestartRequest.name>>
        /\ http.rpc = <<>>
        /\ http.status # StatusOK /\ http.status # StatusNoContent
        /\ http.etag = ""

\* A restart whose body parses and carries a username fragment but no password.
C9_Witness ==
    /\ http.method = "PATCH" /\ http.ifMatch = "*"
    /\ http.bodyOk /\ http.parseOk /\ http.ufrag # "" /\ http.pwd = ""
    /\ http.handled = <<ErrInvalidWHIPRestartRequest.name>>

\* C10: when the RPC of a DELETE or of a PATCH returns psrpc.ErrNoResponse,
\* handleError gets ErrIngressNotFound and nothing else, and no success
\* status, content type, ETag or fragment is written.
C10_NoResponseIsNotFound ==
    (http.rpc # <<>> /\ http.rpc[1].err = ErrNoResponse.name) =>
        /\ http.handled = <<ErrIngressNotFound.name>>
        /\ http.status # StatusOK
        /\ http.contentType = "" /\ http.etag = ""
        /\ http.body \notin Fragments \ {""}

\* An ICE restart that reached the RPC and got no response.
C10_Witness ==
    /\ http.method = "PATCH"
    /\ http.rpc # <<>> /\ http.rpc[1].err = ErrNoResponse.name
    /\ http.handled = <<ErrIngressNotFound.name>>

\* The caller's lookup step: the map access of CloseHandler, AssociateRelay
\* or DissociateRelay and what follows it up to the handler call or return.
LookupStep == admin.pc = "lookup" /\ admin.op \in LookupOps /\ admin'.pc # "lookup"

\* The session is between createStream's return of the resource id and the
\* registration by the first goroutine.
InWindow(s) == pc[s] = "returned" /\ ret[s] = NoErr /\ tpc[s] = "register"

\* C11: AssociateRelay returns ErrIngressNotFound without calling a handler
\* exactly when the resource id is not a key of the map at the lookup; a
\* lookup made after createStream returned and before the registration
\* calls no handler operation, whichever of the three operations it is, and
\* leaves the session as it was, still to be registered and started.
C11_NotFoundIffAbsent ==
    [][LookupStep =>
         /\ admin.op = "AssociateRelay" =>
                ((admin'.ret = ErrNotFound /\ ~admin'.called /\ admin'.pc = "done")
                     <=> admin.rid \notin handlers)
         /\ admin.rid \notin handlers => ~admin'.called /\ admin'.pc = "done"
         /\ InWindow(admin.rid) =>
                /\ ~admin'.called
                /\ admin.op = "AssociateRelay" => admin'.ret = ErrNotFound
                /\ InWindow(admin.rid)'
                /\ UNCHANGED <<handlers, calls, wpc, startErr>>]_vars

\* AssociateRelay returned not found in the window, and the session was
\* registered and started afterwards.
C11_Witness ==
    /\ admin.op = "AssociateRelay" /\ admin.pc = "done"
    /\ admin.early /\ ~admin.found /\ ~admin.called /\ admin.ret = ErrNotFound
    /\ admin.rid \in handlers
    /\ CountOp(calls[admin.rid], "Start") = 1

InsertCount(s) == CountOp(calls[s], "insert")
DeleteCount(s) == CountOp(calls[s], "delete")

\* C12: the handlers map holds exactly the sessions inserted by the first
\* goroutine and not yet deleted, a session is inserted at most once and
\* deleted at most once, and a registered session whose tasks are all over
\* has been deleted exactly once.
C12_DeletedExactlyOnce ==
    \A s \in Sessions :
        /\ InsertCount(s) <= 1 /\ DeleteCount(s) <= InsertCount(s)
        /\ s \in handlers <=> InsertCount(s) = 1 /\ DeleteCount(s) = 0
        /\ (InsertCount(s) = 1 /\ Settled(s)) => DeleteCount(s) = 1

\* C13: once ready has been invoked with the error of h.Start, the session
\* is not in the handlers map: the removal comes before the callback.
C13_RemovedBeforeReady ==
    \A s \in Sessions :
        (startErr[s] \in StartErrors /\ ReadyCount(s) = 1) => s \notin handlers

\* C14: while ended is about to run, runs or has run, the session is not in
\* the handlers map, the second goroutine having deleted it: a lookup of
\* the resource id finds nothing and IsIdle does not count the session.
C14_RemovedBeforeEnded ==
    \A s \in Sessions :
        (wpc[s] = "ended" \/ EndedCount(s) = 1) =>
            /\ ~Found(s)
            /\ DeleteCount(s) = 1
            /\ handlers \subseteq Sessions \ {s}

\* IsIdle reads an empty map at the moment the ended callback of the only
\* session is invoked.
C14_Witness ==
    /\ wpc[1] = "ended" /\ ~endedNil[1]
    /\ admin.op = "IsIdle" /\ admin.pc = "return" /\ admin.ret = "true"

StartCount(s) == CountOp(calls[s], "Start")

\* C15: h.Start is invoked only after the insert, with the lock released by
\* the goroutine, and during the whole call of h.Start the session is in the
\* handlers map, found by lookups.
C15_RegisteredBeforeStart ==
    \A s \in Sessions :
        /\ StartCount(s) >= 1 => InsertCount(s) = 1
        /\ tpc[s] \in {"callStart", "starting"} => lock # StartTask(s)
        /\ tpc[s] = "starting" => Found(s)

\* A lookup made while h.Start is running finds the session.
C15_Witness ==
    /\ tpc[1] = "starting"
    /\ admin.op = "CloseHandler" /\ admin.rid = 1 /\ admin.pc = "lookup"
    /\ lock = AdminTask
    /\ Found(1)

\* C16: a nil callback is never invoked, and each path completes without
\* it: with a nil ready a failure of h.Init is returned to the caller (no
\* nil function is called) and the session is out of the map once the first
\* goroutine is over after a failure of h.Start; with a nil ended the
\* session is out of the map once the second goroutine is over.
C16_NilCallbackSkipped ==
    \A s \in Sessions :
        /\ pc[s] # "panicked"
        /\ readyNil[s] => ReadyCount(s) = 0
        /\ endedNil[s] => EndedCount(s) = 0
        /\ (readyNil[s] /\ initErr[s] \in InitErrors) =>
               pc[s] = "returned" /\ ret[s] = initErr[s]
        /\ (readyNil[s] /\ startErr[s] \in StartErrors /\ tpc[s] = "done") =>
               s \notin handlers
        /\ (endedNil[s] /\ wpc[s] = "done") => s \notin handlers

Tasks ==
    {StartTask(s) : s \in Sessions} \cup {WaitTask(s) : s \in Sessions}
        \cup {AdminTask}

\* The task t is calling an operation of a handler or a callback: h.Start,
\* ready and h.SetMediaStatsGatherer in the first goroutine,
\* h.WaitForSessionEnd and ended in the second, h.Close, h.AssociateRelay or
\* h.DissociateRelay in the caller of an administrative operation.  (h.Init
\* is called by the request's own task, which never takes the lock.)
InOperation(t) ==
    \/ \E s \in Sessions :
           t = StartTask(s) /\ tpc[s] \in {"callStart", "starting", "ready"}
    \/ \E s \in Sessions :
           t = WaitTask(s) /\ wpc[s] \in {"call", "waiting", "ended"}
    \/ t = AdminTask /\ admin.pc = "calling"

\* The steps that end with s.handlersLock.Unlock().
UnlockStep ==
    \/ \E s \in Sessions : Register(s) \/ DeleteDeferred(s) \/ DeleteEnded(s)
    \/ Lookup
    \/ IsIdleReturn

\* C17: the lock is held by a task only around its map access, never while
\* the task is in a handler operation or a callback, and the holder can
\* always go on to its Unlock without waiting for any other task: IsIdle
\* after its read, every other holder in its next step.
C17_LockOnlyAroundMap ==
    /\ lock \in Tasks \cup {NoHolder}
    /\ \A t \in Tasks : InOperation(t) => lock # t
    /\ \A t \in Tasks : lock = t => AtLock(t) \/ (t = AdminTask /\ admin.pc = "return")
    /\ lock # NoHolder =>
          IF lock = AdminTask /\ admin.op = "IsIdle" /\ admin.pc = "lookup"
          THEN ENABLED IsIdleRead
          ELSE ENABLED (UnlockStep /\ lock' = NoHolder)

\* h.Close is running for a session while the second goroutine of that
\* session holds the lock for its delete.
C17_Witness ==
    /\ admin.op = "CloseHandler" /\ admin.pc = "calling" /\ admin.rid = 1
    /\ lock = WaitTask(1)

\* C18: for a session whose h.Start succeeded, ready is invoked before
\* ended and before the delete: once the session has been deleted or ended
\* has been invoked, ready (when there is one) has been invoked.
C18_ReadyBeforeEnded ==
    \A s \in Sessions :
        (startErr[s] = NoErr /\ ~readyNil[s]
             /\ (DeleteCount(s) = 1 \/ EndedCount(s) = 1)) =>
            ReadyCount(s) = 1

\* createStream returned the resource id and the answer of s.
Returned(s) == pc[s] = "returned" /\ ret[s] = NoErr

\* IsIdle has evaluated len(s.handlers) == 0 to true and is about to return.
IsIdleTrue == admin.op = "IsIdle" /\ admin.pc = "return" /\ admin.ret = "true"

\* C19 as stated: when IsIdle returns true, every session whose createStream
\* has returned its resource id is Ended or Failed.
C19_IdleMeansNoneLive ==
    IsIdleTrue =>
        \A s \in Sessions : Returned(s) => SessionState(s) \in {"Ended", "Failed"}

\* C19, amended: when IsIdle returns true the handlers map is empty, and
\* every session whose createStream has returned its resource id is not yet
\* registered (Negotiated), Ended or Failed.
C19_IdleMeansNoneRegistered ==
    IsIdleTrue =>
        /\ handlers = {}
        /\ \A s \in Sessions :
               Returned(s) => SessionState(s) \in {"Negotiated", "Ended", "Failed"}

\* IsIdle returns true between createStream's return and the registration.
C19_Witness == IsIdleTrue /\ InWindow(1)

InitCount(s) == CountOp(calls[s], "Init")
WaitCount(s) == CountOp(calls[s], "WaitForSessionEnd")

\* C20: h.Init, h.Start and h.WaitForSessionEnd are each called at most once
\* for a session, in that order: h.Start only after h.Init has succeeded and
\* createStream has started its goroutine, h.WaitForSessionEnd only after
\* h.Start has succeeded; while an earlier operation is still running a later
\* one has not been called.
C20_LifecycleOrder ==
    \A s \in Sessions :
        /\ InitCount(s) <= 1 /\ StartCount(s) <= 1 /\ WaitCount(s) <= 1
        /\ StartCount(s) = 1 =>
               /\ InitCount(s) = 1 /\ initErr[s] = NoErr
               /\ Returned(s) /\ tpc[s] \notin {"none", "register", "callStart"}
        /\ WaitCount(s) = 1 =>
               /\ StartCount(s) = 1 /\ startErr[s] = NoErr
               /\ tpc[s] \notin {"none", "register", "callStart", "starting"}
        /\ pc[s] = "init" => InitCount(s) = 1 /\ StartCount(s) = 0
        /\ tpc[s] = "starting" => StartCount(s) = 1 /\ WaitCount(s) = 0

\* The three operations have been called, once each.
C20_Witness ==
    /\ InitCount(1) = 1 /\ StartCount(1) = 1 /\ WaitCount(1) = 1
    /\ wpc[1] = "waiting"

====
